---- MODULE Spec2Model ----
(***************************************************************************)
(* Model of the UDP tracker session of src/tracker/tracker.rs:             *)
(* Tracker::connect, connect_exchange, announce_exchange, new_udp_socket   *)
(* and parse_compact_peer_list.                                            *)
(*                                                                         *)
(* Datagrams are byte sequences.  Option<T> is a sequence of length 0      *)
(* (None) or 1 (Some).  The network, the resolver and the operating system *)
(* are the environment: every outcome the code distinguishes (send error,  *)
(* timeout, receive error, datagram of any length, bind/connect error,     *)
(* resolution error) is a nondeterministic choice of the action that       *)
(* models the call.                                                        *)
(***************************************************************************)
EXTENDS Integers, Sequences, FiniteSets, TLC

VARIABLES
    trackers,   \* argument of Tracker::connect: the candidate list
    ti,         \* position of `for tracker in trackers`
    ai,         \* position of `for tracker_addr in addrs`
    tracker,    \* the Tracker value (socket, ctx), None while there is none
    pc,         \* control position of the running call
    i,          \* loop counter of the exchange's `for i in 0..=2`
    req,        \* `req` of the running (or last) exchange
    buf,        \* `buf` of connect_exchange
    len,        \* `len` of the running (or last) exchange
    infohash,   \* argument of the announce_exchange call
    dgram,      \* history: the datagram the last exchange received, if any
    sends,      \* history: per attempted address of this connect call, its sends
    sent,       \* history: the datagrams the running (or last) call handed to send
    recvs,      \* history: the receive waits the running (or last) call began
    parse_call, \* history: the last call of parse_compact_peer_list
    xres,       \* what the last connect_exchange returned to connect
    ret,        \* what the last call returned
    rxq,        \* receive queue of the session's socket: datagrams not yet read
    dgram_re,   \* history: the attempt the received datagram answers, 0 if none
    answered,   \* history: attempts answered by a valid response during their wait
    run_pc,     \* control position of Tracker::run
    run_last,   \* history: what the last iteration of run's loop handled
    os_ports,   \* local UDP ports bound in this process
    calls       \* several Tracker::connect calls of one process, one per tracker

netvars == <<rxq, dgram_re, answered, run_pc, run_last>>
sessvars == <<os_ports, calls>>

vars == <<trackers, ti, ai, tracker, pc, i, req, buf, len, infohash,
          dgram, sends, sent, recvs, parse_call, xres, ret,
          rxq, dgram_re, answered, run_pc, run_last, os_ports, calls>>

-----------------------------------------------------------------------------
(* Bounds of the model *)

\* longest candidate list handed to Tracker::connect
MaxTrackers == 2
\* most complete peer records in a sampled announce payload
MaxPeers == 2
\* most datagrams waiting in a socket's receive queue
MaxQueue == 1
\* most Tracker::connect calls running in one process
MaxSessions == 2

(* Program constants *)

ANNOUNCE_RES_BUF_LEN == 8192
\* `let mut buf = [0; 1024]` of run
RunBufLen == 1024
\* `for i in 0..=2`: the last value of the loop counter
LastAttempt == 2
StrideV4 == 6
StrideV6 == 18
\* UdpSocket::bind("0.0.0.0:6881")
LocalPortV4 == 6881
\* connect::Response::LENGTH
ResponseLENGTH == 16
\* length of the fixed announce response header
AnnounceHeaderLENGTH == 20
ActionConnect == 0
ActionAnnounce == 1

-----------------------------------------------------------------------------
(* Bytes *)

None == <<>>
Some(x) == <<x>>

Min(a, b) == IF a < b THEN a ELSE b

Take(s, n) == SubSeq(s, 1, Min(n, Len(s)))
Drop(s, n) == SubSeq(s, Min(n, Len(s)) + 1, Len(s))

Zeros(n) == [k \in 1..n |-> 0]

RECURSIVE ToBE(_, _)
\* n.to_be_bytes() of a w-byte unsigned integer
ToBE(n, w) == IF w = 0 THEN <<>> ELSE ToBE(n \div 256, w - 1) \o <<n % 256>>

RECURSIVE FromBE(_)
\* uN::from_be_bytes(bytes)
FromBE(bytes) ==
    IF bytes = <<>> THEN 0
    ELSE FromBE(SubSeq(bytes, 1, Len(bytes) - 1)) * 256 + bytes[Len(bytes)]

\* socket.recv(&mut b) of datagram d: the first min(len) bytes are overwritten,
\* the excess of an oversized datagram is discarded; returns the stored length
RecvInto(b, d) ==
    [k \in 1..Len(b) |-> IF k <= Len(d) THEN d[k] ELSE b[k]]
RecvLen(b, d) == Min(Len(b), Len(d))

-----------------------------------------------------------------------------
(* The environment's sample values *)

\* transaction ids drawn by rand::random::<u32>() and sent by trackers
TxIds == {0, 258}
\* connection ids issued by trackers
ConnIds == {0, 772}
\* rand::random::<[u8; 20]>()
PeerIds == {[k \in 1..20 |-> 17 + k]}
InfoHashes == {[k \in 1..20 |-> 170], [k \in 1..20 |-> 187]}
\* ephemeral local ports the OS picks for bind((::, 0))
EphemeralPorts == {50000}

\* a socket address: n-th address of candidate t, IPv6 or IPv4
Addr(t, n, v6) == [t |-> t, n |-> n, v6 |-> v6]

\* what candidate t's to_socket_addrs() yields: an error, one IPv4 address, one
\* IPv6 address or, for the first candidate, an IPv4 and an IPv6 address
Resolutions(t) ==
    { [ok |-> FALSE, addrs |-> <<>>],
      [ok |-> TRUE, addrs |-> <<Addr(t, 1, FALSE)>>],
      [ok |-> TRUE, addrs |-> <<Addr(t, 1, TRUE)>>] } \cup
    IF t = 1
    THEN { [ok |-> TRUE, addrs |-> <<Addr(t, 1, FALSE), Addr(t, 2, TRUE)>>] }
    ELSE {}

TrackerLists ==
    UNION { { l \in [1..n -> UNION { Resolutions(t) : t \in 1..n }] :
                \A t \in 1..n : l[t] \in Resolutions(t) } : n \in 1..MaxTrackers }

-----------------------------------------------------------------------------
(* Wire format of the connect exchange (super::connect) *)

\* the protocol's fixed 64-bit magic, as its 8 big-endian bytes
PROTOCOL_ID == <<0, 0, 4, 23, 39, 16, 25, 128>>

\* connect::Request::new(): a fresh random transaction id
ConnectRequestNew(txid) ==
    [protocol_id |-> PROTOCOL_ID, action |-> ActionConnect, transaction_id |-> txid]

\* connect::Request::serialize
ConnectRequestSerialize(r) ==
    r.protocol_id \o ToBE(r.action, 4) \o ToBE(r.transaction_id, 4)

\* connect::Response::serialize, what a tracker puts on the wire
ConnectResponseSerialize(action, txid, cid) ==
    ToBE(action, 4) \o ToBE(txid, 4) \o ToBE(cid, 8)

\* connect::Response::deserialize(buf) -> Result<(Response, &[u8]), Error>
ConnectResponseDeserialize(b) ==
    IF Len(b) < ResponseLENGTH
    THEN [ok |-> FALSE, err |-> "TrackerResponseLength",
          res |-> [action |-> 0, transaction_id |-> 0, connection_id |-> 0],
          rest |-> <<>>]
    ELSE [ok |-> TRUE, err |-> "",
          res |-> [action |-> FromBE(SubSeq(b, 1, 4)),
                   transaction_id |-> FromBE(SubSeq(b, 5, 8)),
                   connection_id |-> FromBE(SubSeq(b, 9, 16))],
          rest |-> Drop(b, ResponseLENGTH)]

\* lengths at which the network may cut or pad a connect response
ConnectDatagramLens == {0, 4, 8, 15, 16, 17}

\* datagrams that may arrive on the socket during a connect exchange
ConnectDatagrams ==
    { Take(ConnectResponseSerialize(a, t, c) \o <<9>>, n) :
        a \in {ActionConnect, ActionAnnounce}, t \in TxIds, c \in ConnIds,
        n \in ConnectDatagramLens }

-----------------------------------------------------------------------------
(* Wire format of the announce exchange (super::announce) *)

\* i32::to_be_bytes in two's complement
ToBEi32(n) ==
    IF n >= 0 THEN ToBE(n, 4)
    ELSE [k \in 1..4 |-> 255 - ToBE(-n - 1, 4)[k]]

\* announce::Request::new(connection_id, infohash, peer_id, port)
AnnounceRequestNew(connection_id, hash, peer_id, port, txid) ==
    [connection_id |-> connection_id, action |-> ActionAnnounce,
     transaction_id |-> txid, infohash |-> hash, peer_id |-> peer_id,
     downloaded |-> 0, left |-> 0, uploaded |-> 0, event |-> 0,
     ip_address |-> 0, key |-> 0, num_want |-> -1, port |-> port]

\* announce::Request::serialize
AnnounceRequestSerialize(r) ==
    ToBE(r.connection_id, 8) \o ToBE(r.action, 4) \o ToBE(r.transaction_id, 4)
    \o r.infohash \o r.peer_id
    \o ToBE(r.downloaded, 8) \o ToBE(r.left, 8) \o ToBE(r.uploaded, 8)
    \o ToBE(r.event, 4) \o ToBE(r.ip_address, 4) \o ToBE(r.key, 4)
    \o ToBEi32(r.num_want) \o ToBE(r.port, 2)

\* the announce response header a tracker puts on the wire
AnnounceHeaderSerialize(action, txid) ==
    ToBE(action, 4) \o ToBE(txid, 4) \o ToBE(1800, 4) \o ToBE(1, 4) \o ToBE(2, 4)

\* announce::Response::deserialize(buf) -> Result<(Response, &[u8]), Error>:
\* the fixed header, and the bytes after it as the payload
AnnounceResponseDeserialize(b) ==
    IF Len(b) < AnnounceHeaderLENGTH
    THEN [ok |-> FALSE, err |-> "TrackerResponseLength",
          res |-> [action |-> 0, transaction_id |-> 0], payload |-> <<>>]
    ELSE [ok |-> TRUE, err |-> "",
          res |-> [action |-> FromBE(SubSeq(b, 1, 4)),
                   transaction_id |-> FromBE(SubSeq(b, 5, 8))],
          payload |-> Drop(b, AnnounceHeaderLENGTH)]

Stride(is_ipv6) == IF is_ipv6 THEN StrideV6 ELSE StrideV4

\* compact peer records trackers send
SampleChunks(is_ipv6) ==
    IF is_ipv6
    THEN { [k \in 1..16 |-> 32 + k] \o <<0, 80>>, [k \in 1..16 |-> 255 - k] \o <<1, 187>> }
    ELSE { <<1, 2, 3, 4, 0, 80>>, <<5, 6, 7, 8, 1, 187>> }

RECURSIVE Flatten(_)
Flatten(ss) == IF ss = <<>> THEN <<>> ELSE ss[1] \o Flatten(Tail(ss))

\* payloads: up to MaxPeers records, then nothing, one byte or a record short
\* of its last byte
Payloads(is_ipv6) ==
    { Flatten(cs) \o Take(<<7, 7, 7, 7, 7, 7, 7, 7, 7, 7, 7, 7, 7, 7, 7, 7, 7, 7>>, r) :
        cs \in UNION { [1..n -> SampleChunks(is_ipv6)] : n \in 0..MaxPeers },
        r \in {0, 1, Stride(is_ipv6) - 1} }

\* datagrams that may arrive on the socket during an announce exchange
AnnounceDatagrams(is_ipv6) ==
    { AnnounceHeaderSerialize(a, t) \o p :
        a \in {ActionConnect, ActionAnnounce}, t \in TxIds, p \in Payloads(is_ipv6) }
    \cup { Take(AnnounceHeaderSerialize(ActionAnnounce, t), n) :
             t \in TxIds, n \in {0, 8, AnnounceHeaderLENGTH - 1} }

-----------------------------------------------------------------------------
(* Values of the program *)

\* Result values
Pending == [call |-> "none", status |-> "Pending", err |-> "", peers |-> <<>>]
Running(call) == [call |-> call, status |-> "Pending", err |-> "", peers |-> <<>>]
Ok(call, peers) == [call |-> call, status |-> "Ok", err |-> "", peers |-> peers]
Err(call, e) == [call |-> call, status |-> "Err", err |-> e, peers |-> <<>>]
Panic(call, msg) == [call |-> call, status |-> "Panic", err |-> msg, peers |-> <<>>]

NoReq == [action |-> 0, transaction_id |-> 0]
NoParse == <<>>

\* the UdpSocket new_udp_socket returns for addr: bound locally, connected to addr
Socket(addr, port) == [is_ipv6 |-> addr.v6, local_port |-> port, remote |-> addr]

LocalPorts(addr) == IF addr.v6 THEN EphemeralPorts ELSE {LocalPortV4}

\* TrackerCtx and Tracker
TrackerCtx(peer_id, tracker_addr, connection_id) ==
    [peer_id |-> peer_id, tracker_addr |-> tracker_addr,
     connection_id |-> connection_id]

\* impl Default for TrackerCtx: "0.0.0.0:0", zero peer id, no connection id
TrackerCtxDefault == TrackerCtx(Zeros(20), Addr(0, 0, FALSE), None)

Tracker(socket, ctx) == [socket |-> socket, ctx |-> ctx]

HasTracker == tracker # None
Self == tracker[1]

\* the addresses the current candidate resolved to
addrs == trackers[ti].addrs

-----------------------------------------------------------------------------
(* Tracker::connect and connect_exchange *)

\* history entry of one attempted address: send attempts made, whether a send
\* returned an error, whether a datagram (of any length) was received
SendsEntry(addr) == [addr |-> addr, n |-> 0, send_failed |-> FALSE, received |-> FALSE]

LastSends == sends[Len(sends)]
BumpSends(ok) ==
    [sends EXCEPT ![Len(sends)] =
        [@ EXCEPT !.n = @ + 1, !.send_failed = ~ok]]
MarkReceived == [sends EXCEPT ![Len(sends)] = [@ EXCEPT !.received = TRUE]]

\* outcomes of UdpSocket::bind and of sock.connect(addr) in new_udp_socket
SocketOutcomes == {"ok", "bind_failed", "connect_failed"}

\* new_udp_socket(addr): Ok(socket), or a panic of one of the two expect()s.
\* It has no path that returns Err.
NewUdpSocket(addr, outcome, port) ==
    CASE outcome = "ok" -> [kind |-> "Ok", socket |-> Some(Socket(addr, port)), msg |-> ""]
      [] outcome = "bind_failed" ->
            [kind |-> "Panic", socket |-> None, msg |-> "Failed to bind udp socket"]
      [] outcome = "connect_failed" ->
            [kind |-> "Panic", socket |-> None, msg |-> "Failed to connect to udp socket"]

\* MoreAttempts with the loop written `for i in 0..2`
MoreAttempts_OffByOne(k) == k < LastAttempt - 1

\* MoreAttempts with the range one attempt longer
MoreAttempts_OneMore(k) == k < LastAttempt + 1

\* the loop condition of `for i in 0..=2` after an attempt without a datagram
MoreAttempts(k) == k < LastAttempt

\* AttemptRequest with a transaction id of its own for every attempt
AttemptRequest_FreshTxid(r, k) == [r EXCEPT !.transaction_id = r.transaction_id + k]

\* the request attempt k serializes: req is bound once, before the loop, and
\* every iteration borrows that same value
AttemptRequest(r, k) == r

\* ConnectExchangeTail without the check of len
ConnectExchangeTail_NoLenCheck(b, l, r) ==
    LET d == ConnectResponseDeserialize(b) IN
    IF ~d.ok
    THEN [ok |-> FALSE, err |-> d.err, connection_id |-> None]
    ELSE IF d.res.transaction_id # r.transaction_id \/ d.res.action # r.action
    THEN [ok |-> FALSE, err |-> "TrackerResponse", connection_id |-> None]
    ELSE [ok |-> TRUE, err |-> "", connection_id |-> Some(d.res.connection_id)]

\* ConnectExchangeTail with the transaction id left out of the validation
ConnectExchangeTail_ActionOnly(b, l, r) ==
    IF l = 0
    THEN [ok |-> FALSE, err |-> "TrackerResponse", connection_id |-> None]
    ELSE LET d == ConnectResponseDeserialize(b) IN
         IF ~d.ok
         THEN [ok |-> FALSE, err |-> d.err, connection_id |-> None]
         ELSE IF d.res.action # r.action
         THEN [ok |-> FALSE, err |-> "TrackerResponse", connection_id |-> None]
         ELSE [ok |-> TRUE, err |-> "", connection_id |-> Some(d.res.connection_id)]

\* connect_exchange after its loop: the len check, deserialize(&buf), the
\* validation against req, and the connection id to store
ConnectExchangeTail(b, l, r) ==
    IF l = 0
    THEN [ok |-> FALSE, err |-> "TrackerResponse", connection_id |-> None]
    ELSE LET d == ConnectResponseDeserialize(b) IN
         IF ~d.ok
         THEN [ok |-> FALSE, err |-> d.err, connection_id |-> None]
         ELSE IF d.res.transaction_id # r.transaction_id \/ d.res.action # r.action
         THEN [ok |-> FALSE, err |-> "TrackerResponse", connection_id |-> None]
         ELSE [ok |-> TRUE, err |-> "", connection_id |-> Some(d.res.connection_id)]

\* `for tracker in trackers`: take the next candidate and resolve it; the `?`
\* returns the resolution error from connect; an exhausted list is TrackerNoHosts
ConnectNextTracker ==
    /\ pc = "connect_tracker"
    /\ IF ti + 1 > Len(trackers)
       THEN /\ ret' = Err("connect", "TrackerNoHosts")
            /\ pc' = "returned"
            /\ UNCHANGED <<ti, ai>>
       ELSE IF ~trackers[ti + 1].ok
       THEN /\ ret' = Err("connect", "TrackerSocketAddrs")
            /\ pc' = "returned"
            /\ ti' = ti + 1
            /\ UNCHANGED ai
       ELSE /\ ti' = ti + 1
            /\ ai' = 0
            /\ pc' = "connect_addr"
            /\ UNCHANGED ret
    /\ UNCHANGED <<trackers, tracker, i, req, buf, len, infohash, dgram, sends,
                   sent, recvs, parse_call, xres>>
    /\ UNCHANGED <<netvars, sessvars>>

\* `for tracker_addr in addrs`: open the socket, build the Tracker and enter
\* connect_exchange (request drawn, buffer zeroed); an exhausted iterator goes
\* back to the outer loop
ConnectNextAddr ==
    /\ pc = "connect_addr"
    /\ IF ai + 1 > Len(addrs)
       THEN /\ pc' = "connect_tracker"
            /\ UNCHANGED <<ai, tracker, i, req, buf, len, dgram, sends, sent, recvs, ret>>
       ELSE \E outcome \in SocketOutcomes, port \in LocalPorts(addrs[ai + 1]),
               peer_id \in PeerIds, txid \in TxIds :
            LET tracker_addr == addrs[ai + 1]
                s == NewUdpSocket(tracker_addr, outcome, port) IN
            /\ ai' = ai + 1
            /\ IF s.kind = "Panic"
               THEN /\ ret' = Panic("connect", s.msg)
                    /\ pc' = "returned"
                    /\ UNCHANGED <<tracker, i, req, buf, len, dgram, sends, sent, recvs>>
               ELSE /\ tracker' = Some(Tracker(s.socket[1],
                                               TrackerCtx(peer_id, tracker_addr, None)))
                    /\ req' = ConnectRequestNew(txid)
                    /\ buf' = Zeros(ResponseLENGTH)
                    /\ len' = 0
                    /\ i' = 0
                    /\ dgram' = None
                    /\ sent' = <<>>
                    /\ recvs' = 0
                    /\ sends' = Append(sends, SendsEntry(tracker_addr))
                    /\ pc' = "cx_send"
                    /\ UNCHANGED ret
    /\ rxq' = <<>>
    /\ dgram_re' = 0
    /\ answered' = {}
    /\ UNCHANGED <<trackers, ti, infohash, parse_call, xres, run_pc, run_last, sessvars>>

\* the locals of an exchange, gone when it returns Err
DropLocals ==
    /\ i' = 0
    /\ req' = NoReq
    /\ buf' = <<>>
    /\ len' = 0
    /\ dgram' = None
    /\ sent' = <<>>
    /\ recvs' = 0
    /\ dgram_re' = 0
    /\ answered' = {}

\* connect_exchange returned Err(e): is_ok() is false, the Tracker of this
\* iteration is dropped and the inner loop goes on
ConnectExchangeFailed(e) ==
    /\ xres' = Err("connect_exchange", e)
    /\ tracker' = None
    /\ pc' = "connect_addr"
    /\ DropLocals
    /\ UNCHANGED ret

\* connect_exchange returned Ok: connect returns the Tracker
ConnectExchangeOk(connection_id) ==
    /\ xres' = Ok("connect_exchange", <<>>)
    /\ tracker' = Some([Self EXCEPT !.ctx.connection_id = connection_id])
    /\ pc' = "idle"
    /\ ret' = Ok("connect", <<>>)
    /\ UNCHANGED <<i, req, buf, len, dgram, sent, recvs, dgram_re, answered>>

\* self.socket.send(&req.serialize()).await? of connect_exchange
ConnectSend ==
    /\ pc = "cx_send"
    /\ \E ok \in BOOLEAN :
        /\ sends' = BumpSends(ok)
        /\ IF ok
           THEN /\ sent' = Append(sent, ConnectRequestSerialize(AttemptRequest(req, i)))
                /\ pc' = "cx_recv"
                /\ UNCHANGED <<tracker, ret, xres, i, req, buf, len, dgram, recvs,
                               dgram_re, answered>>
           ELSE ConnectExchangeFailed("Io")
    /\ UNCHANGED <<trackers, ti, ai, infohash, parse_call, rxq, run_pc, run_last,
                   sessvars>>

\* timeout(3 s, self.socket.recv(&mut buf)) of connect_exchange: the deadline
\* passes (Err(e)), recv returns an error (Ok(Err)), or a datagram arrives
\* (Ok(Ok(lenn)): len = lenn; break)
ConnectRecv ==
    /\ pc = "cx_recv"
    /\ recvs' = recvs + 1
    /\ \/ \E outcome \in {"elapsed", "recv_error"} :
            /\ UNCHANGED <<buf, len, dgram, sends>>
            /\ IF MoreAttempts(i)
               THEN i' = i + 1 /\ pc' = "cx_send"
               ELSE UNCHANGED i /\ pc' = "cx_tail"
       \/ \E d \in ConnectDatagrams :
            /\ buf' = RecvInto(buf, d)
            /\ len' = RecvLen(buf, d)
            /\ dgram' = Some(d)
            /\ sends' = MarkReceived
            /\ pc' = "cx_tail"
            /\ UNCHANGED i
    /\ UNCHANGED <<trackers, ti, ai, tracker, req, infohash, sent, parse_call, ret, xres>>
    /\ UNCHANGED <<netvars, sessvars>>

\* connect_exchange from the end of its loop to its return, and what connect
\* does with the result
ConnectReturn ==
    /\ pc = "cx_tail"
    /\ LET t == ConnectExchangeTail(buf, len, req) IN
       IF t.ok THEN ConnectExchangeOk(t.connection_id)
               ELSE ConnectExchangeFailed(t.err)
    /\ UNCHANGED <<trackers, ti, ai, infohash, sends, parse_call, rxq, run_pc, run_last,
                   sessvars>>

-----------------------------------------------------------------------------
(* parse_compact_peer_list *)

\* buf.chunks_exact(stride): the complete chunks, in order
ChunksExact(b, stride) ==
    [k \in 1..(Len(b) \div stride) |-> SubSeq(b, (k - 1) * stride + 1, k * stride)]

\* chunks.remainder(): what is left after the last complete chunk
Remainder(b, stride) == SubSeq(b, (Len(b) \div stride) * stride + 1, Len(b))

\* ParsePeer with the port read by u16::from_le_bytes
ParsePeer_LittleEndian(hostpost, stride, is_ipv6) ==
    LET ip == SubSeq(hostpost, 1, stride - 2)
        port == SubSeq(hostpost, stride - 1, Len(hostpost)) IN
    [ip |-> IF is_ipv6 THEN SubSeq(ip, 1, 16) ELSE <<ip[1], ip[2], ip[3], ip[4]>>,
     port |-> port[2] * 256 + port[1]]

\* hostpost.split_at(stride - 2), the IpAddr of the first part and the
\* u16::from_be_bytes of the second
ParsePeer(hostpost, stride, is_ipv6) ==
    LET ip == SubSeq(hostpost, 1, stride - 2)
        port == SubSeq(hostpost, stride - 1, Len(hostpost)) IN
    [ip |-> IF is_ipv6 THEN SubSeq(ip, 1, 16) ELSE <<ip[1], ip[2], ip[3], ip[4]>>,
     port |-> FromBE(port)]

\* ParseCompactPeerList without the remainder check: the complete leading
\* chunks are decoded and a trailing partial record is dropped
ParseCompactPeerList_Truncating(b, is_ipv6) ==
    LET stride == Stride(is_ipv6)
        chunks == ChunksExact(b, stride) IN
    [ok |-> TRUE, err |-> "",
     peers |-> [k \in 1..Len(chunks) |-> ParsePeer(chunks[k], stride, is_ipv6)]]

\* parse_compact_peer_list(buf, is_ipv6) -> Result<Vec<Peer>, Error>
ParseCompactPeerList(b, is_ipv6) ==
    LET stride == Stride(is_ipv6)
        chunks == ChunksExact(b, stride) IN
    IF Remainder(b, stride) # <<>>
    THEN [ok |-> FALSE, err |-> "TrackerCompactPeerList", peers |-> <<>>]
    ELSE [ok |-> TRUE, err |-> "",
          peers |-> [k \in 1..Len(chunks) |-> ParsePeer(chunks[k], stride, is_ipv6)]]

-----------------------------------------------------------------------------
(* announce_exchange *)

\* MatchConnectionId written self.ctx.connection_id.unwrap_or_default()
MatchConnectionId_UnwrapOrDefault(ctx) ==
    IF ctx.connection_id = None
    THEN [some |-> TRUE, x |-> 0]
    ELSE [some |-> TRUE, x |-> ctx.connection_id[1]]

\* the match on self.ctx.connection_id that opens announce_exchange:
\* Some(x) => x, None => return Err(TrackerNoConnectionId)
MatchConnectionId(ctx) ==
    IF ctx.connection_id = None
    THEN [some |-> FALSE, x |-> 0]
    ELSE [some |-> TRUE, x |-> ctx.connection_id[1]]

\* AnnounceSelf with the connection id invalidated when the call fails
AnnounceSelf_InvalidateOnError(t, r) ==
    IF r.status = "Err" THEN [t EXCEPT !.ctx.connection_id = None] ELSE t

\* announce_exchange borrows &self: the Tracker as the call, returning r, leaves it
AnnounceSelf(t, r) == t

\* AnnounceExchangeTail with the comparison of the transaction ids inverted
AnnounceExchangeTail_TxidInverted(b, l, r, is_ipv6) ==
    IF l = 0
    THEN [ret |-> Err("announce_exchange", "TrackerResponse"), parse |-> NoParse]
    ELSE LET d == AnnounceResponseDeserialize(b) IN
         IF ~d.ok
         THEN [ret |-> Err("announce_exchange", d.err), parse |-> NoParse]
         ELSE IF d.res.transaction_id = r.transaction_id \/ d.res.action # r.action
         THEN [ret |-> Err("announce_exchange", "TrackerResponse"), parse |-> NoParse]
         ELSE LET p == ParseCompactPeerList(d.payload, is_ipv6)
                  call == Some([buf |-> d.payload, is_ipv6 |-> is_ipv6, result |-> p]) IN
              IF ~p.ok
              THEN [ret |-> Err("announce_exchange", p.err), parse |-> call]
              ELSE [ret |-> Ok("announce_exchange", p.peers), parse |-> call]

\* announce_exchange after its loop: the len check, deserialize(&res[..len]),
\* the validation against req and the peer list; b is res[..len]
AnnounceExchangeTail(b, l, r, is_ipv6) ==
    IF l = 0
    THEN [ret |-> Err("announce_exchange", "TrackerResponse"), parse |-> NoParse]
    ELSE LET d == AnnounceResponseDeserialize(b) IN
         IF ~d.ok
         THEN [ret |-> Err("announce_exchange", d.err), parse |-> NoParse]
         ELSE IF d.res.transaction_id # r.transaction_id \/ d.res.action # r.action
         THEN [ret |-> Err("announce_exchange", "TrackerResponse"), parse |-> NoParse]
         ELSE LET p == ParseCompactPeerList(d.payload, is_ipv6)
                  call == Some([buf |-> d.payload, is_ipv6 |-> is_ipv6, result |-> p]) IN
              IF ~p.ok
              THEN [ret |-> Err("announce_exchange", p.err), parse |-> call]
              ELSE [ret |-> Ok("announce_exchange", p.peers), parse |-> call]

\* the frame of the connect call is gone once the caller goes on
DropConnectFrame ==
    /\ trackers' = <<>>
    /\ ti' = 0
    /\ ai' = 0
    /\ sends' = <<>>
    /\ xres' = Pending

\* announce_exchange(&self, infohash) up to its loop: the connection id check,
\* and the request with a fresh transaction id.  self.socket.local_addr() of
\* the bound socket is taken to succeed.
AnnounceCall ==
    /\ pc = "idle"
    /\ HasTracker
    /\ \E hash \in InfoHashes, txid \in TxIds :
        /\ infohash' = hash
        /\ IF MatchConnectionId(Self.ctx).some
           THEN /\ req' = AnnounceRequestNew(MatchConnectionId(Self.ctx).x, hash,
                                             Self.ctx.peer_id,
                                             Self.socket.local_port, txid)
                /\ ret' = Running("announce_exchange")
                /\ pc' = "ax_send"
           ELSE /\ req' = NoReq
                /\ ret' = Err("announce_exchange", "TrackerNoConnectionId")
                /\ pc' = "idle"
    /\ i' = 0
    /\ buf' = <<>>
    /\ len' = 0
    /\ dgram' = None
    /\ sent' = <<>>
    /\ recvs' = 0
    /\ parse_call' = NoParse
    /\ DropConnectFrame
    /\ tracker' = Some(AnnounceSelf(Self, ret'))
    /\ dgram_re' = 0
    /\ answered' = {}
    /\ rxq' = [k \in DOMAIN rxq |-> [rxq[k] EXCEPT !.re = 0]]
    /\ UNCHANGED <<run_pc, run_last, sessvars>>

\* self.socket.send(&req.serialize()).await? of announce_exchange
AnnounceSend ==
    /\ pc = "ax_send"
    /\ \E ok \in BOOLEAN :
        IF ok
        THEN /\ sent' = Append(sent, AnnounceRequestSerialize(AttemptRequest(req, i)))
             /\ pc' = "ax_recv"
             /\ UNCHANGED ret
        ELSE /\ ret' = Err("announce_exchange", "Io")
             /\ pc' = "idle"
             /\ UNCHANGED sent
    /\ tracker' = Some(AnnounceSelf(Self, ret'))
    /\ UNCHANGED <<trackers, ti, ai, i, req, buf, len, infohash, dgram,
                   sends, recvs, parse_call, xres>>
    /\ UNCHANGED <<netvars, sessvars>>

\* AnnounceRecv without the break after a datagram: the loop goes on to the
\* next attempt
AnnounceRecv_NoBreak ==
    /\ pc = "ax_recv"
    /\ recvs' = recvs + 1
    /\ \/ \E outcome \in {"elapsed", "recv_error"} :
            /\ UNCHANGED <<buf, len, dgram>>
            /\ IF MoreAttempts(i)
               THEN i' = i + 1 /\ pc' = "ax_send"
               ELSE UNCHANGED i /\ pc' = "ax_tail"
       \/ \E d \in AnnounceDatagrams(Self.socket.is_ipv6) :
            /\ buf' = Take(d, ANNOUNCE_RES_BUF_LEN)
            /\ len' = Min(Len(d), ANNOUNCE_RES_BUF_LEN)
            /\ dgram' = Some(d)
            /\ IF MoreAttempts(i)
               THEN i' = i + 1 /\ pc' = "ax_send"
               ELSE UNCHANGED i /\ pc' = "ax_tail"
    /\ UNCHANGED <<trackers, ti, ai, tracker, req, infohash, sends, sent,
                   parse_call, xres, ret>>
    /\ UNCHANGED <<netvars, sessvars>>

\* timeout(3 s, self.socket.recv(&mut res)) of announce_exchange: the deadline
\* passes (Err(e)), recv returns an error (Ok(Err)), or a datagram arrives
\* (Ok(Ok(lenn)): len = lenn; break).  buf holds res[..len].
AnnounceRecv ==
    /\ pc = "ax_recv"
    /\ recvs' = recvs + 1
    /\ \/ \E outcome \in {"elapsed", "recv_error"} :
            /\ UNCHANGED <<buf, len, dgram>>
            /\ IF MoreAttempts(i)
               THEN i' = i + 1 /\ pc' = "ax_send"
               ELSE UNCHANGED i /\ pc' = "ax_tail"
       \/ \E d \in AnnounceDatagrams(Self.socket.is_ipv6) :
            /\ buf' = Take(d, ANNOUNCE_RES_BUF_LEN)
            /\ len' = Min(Len(d), ANNOUNCE_RES_BUF_LEN)
            /\ dgram' = Some(d)
            /\ pc' = "ax_tail"
            /\ UNCHANGED i
    /\ UNCHANGED <<trackers, ti, ai, tracker, req, infohash, sends, sent,
                   parse_call, xres, ret>>
    /\ UNCHANGED <<netvars, sessvars>>

\* announce_exchange from the end of its loop to its return
AnnounceReturn ==
    /\ pc = "ax_tail"
    /\ LET t == AnnounceExchangeTail(buf, len, req, Self.socket.is_ipv6) IN
        /\ ret' = t.ret
        /\ parse_call' = t.parse
        /\ tracker' = Some(AnnounceSelf(Self, t.ret))
    /\ pc' = "idle"
    /\ UNCHANGED <<trackers, ti, ai, i, req, buf, len, infohash, dgram,
                   sends, sent, recvs, xres>>
    /\ UNCHANGED <<netvars, sessvars>>

-----------------------------------------------------------------------------

\* no call has run yet: no locals, nothing sent or received
InitLocals ==
    /\ ti = 0
    /\ ai = 0
    /\ i = 0
    /\ req = NoReq
    /\ buf = <<>>
    /\ len = 0
    /\ infohash = <<>>
    /\ dgram = None
    /\ sends = <<>>
    /\ sent = <<>>
    /\ recvs = 0
    /\ parse_call = NoParse
    /\ xres = Pending

\* no socket queue, Tracker::run not started
InitNet ==
    /\ rxq = <<>>
    /\ dgram_re = 0
    /\ answered = {}
    /\ run_pc = "off"
    /\ run_last = "none"

\* no other connect call in the process
InitSess ==
    /\ os_ports = {}
    /\ calls = <<>>

\* The caller either calls Tracker::connect(trackers) or builds a Tracker from
\* its public fields with TrackerCtx::default() and a socket of its own.
Init ==
    /\ \/ /\ trackers \in TrackerLists
          /\ tracker = None
          /\ pc = "connect_tracker"
          /\ ret = Running("connect")
       \/ /\ trackers = <<>>
          /\ tracker = Some(Tracker(Socket(Addr(0, 0, FALSE), LocalPortV4),
                                    TrackerCtxDefault))
          /\ pc = "idle"
          /\ ret = Pending
    /\ InitLocals
    /\ InitNet
    /\ InitSess

Next ==
    \/ ConnectNextTracker
    \/ ConnectNextAddr
    \/ ConnectSend
    \/ ConnectRecv
    \/ ConnectReturn
    \/ AnnounceCall
    \/ AnnounceSend
    \/ AnnounceRecv
    \/ AnnounceReturn

Spec == Init /\ [][Next]_vars

-----------------------------------------------------------------------------
(* The socket's receive queue and Tracker::run.  The exchanges read what the
   network has put on the socket; run reads the same socket. *)

\* the action and the transaction id of a request as the tracker reads them
\* off the wire: both requests carry them at bytes 9..12 and 13..16
WireAction(rq) == FromBE(SubSeq(rq, 9, 12))
WireTxid(rq) == FromBE(SubSeq(rq, 13, 16))

\* the tracker's response to the request datagram rq, echoing transaction id t
TrackerResponse(rq, t, is_ipv6) ==
    IF WireAction(rq) = ActionConnect
    THEN ConnectResponseSerialize(ActionConnect, t, 772)
    ELSE AnnounceHeaderSerialize(ActionAnnounce, t)
         \o (IF is_ipv6 THEN [k \in 1..16 |-> 32 + k] \o <<0, 80>>
                        ELSE <<1, 2, 3, 4, 0, 80>>)

\* d is a full response to rq with rq's action and transaction id
ValidResponse(d, rq) ==
    /\ Len(d) >= ResponseLENGTH
    /\ FromBE(SubSeq(d, 1, 4)) = WireAction(rq)
    /\ FromBE(SubSeq(d, 5, 8)) = WireTxid(rq)

\* what may arrive for attempt k: the tracker's response to the k-th datagram
\* sent, or one with another transaction id; for k = 0, a datagram nobody asked
\* for: an empty one or a malformed one
NetDatagrams(k) ==
    IF k = 0
    THEN { <<>>, <<9>> }
    ELSE { TrackerResponse(sent[k], t, Self.socket.is_ipv6) :
             t \in {WireTxid(sent[k]), WireTxid(sent[k]) + 1} }

\* a datagram arrives at the socket and waits to be read
NetDeliver ==
    /\ HasTracker
    /\ Len(rxq) < MaxQueue
    /\ \E k \in 0..Len(sent) : \E d \in NetDatagrams(k) :
        /\ rxq' = Append(rxq, [bytes |-> d, re |-> k])
        /\ answered' =
             IF /\ pc \in {"cx_recv", "ax_recv"}
                /\ k = i + 1
                /\ ValidResponse(d, sent[k])
             THEN answered \cup {k}
             ELSE answered
    /\ UNCHANGED <<trackers, ti, ai, tracker, pc, i, req, buf, len, infohash,
                   dgram, sends, sent, recvs, parse_call, xres, ret>>
    /\ UNCHANGED <<dgram_re, run_pc, run_last, sessvars>>

\* timeout(3 s, self.socket.recv(&mut buf)) of connect_exchange on the socket:
\* a queued datagram is read at once (Ok(Ok(lenn)): len = lenn; break); with
\* none queued the deadline passes or recv returns an error
ConnectRecvSock ==
    /\ pc = "cx_recv"
    /\ recvs' = recvs + 1
    /\ IF rxq # <<>>
       THEN /\ buf' = RecvInto(buf, Head(rxq).bytes)
            /\ len' = RecvLen(buf, Head(rxq).bytes)
            /\ dgram' = Some(Head(rxq).bytes)
            /\ dgram_re' = Head(rxq).re
            /\ rxq' = Tail(rxq)
            /\ sends' = MarkReceived
            /\ pc' = "cx_tail"
            /\ UNCHANGED i
       ELSE \E outcome \in {"elapsed", "recv_error"} :
            /\ UNCHANGED <<buf, len, dgram, dgram_re, rxq, sends>>
            /\ IF MoreAttempts(i)
               THEN i' = i + 1 /\ pc' = "cx_send"
               ELSE UNCHANGED i /\ pc' = "cx_tail"
    /\ UNCHANGED <<trackers, ti, ai, tracker, req, infohash, sent, parse_call, ret, xres>>
    /\ UNCHANGED <<answered, run_pc, run_last, sessvars>>

\* timeout(3 s, self.socket.recv(&mut res)) of announce_exchange on the socket
AnnounceRecvSock ==
    /\ pc = "ax_recv"
    /\ recvs' = recvs + 1
    /\ IF rxq # <<>>
       THEN /\ buf' = Take(Head(rxq).bytes, ANNOUNCE_RES_BUF_LEN)
            /\ len' = Min(Len(Head(rxq).bytes), ANNOUNCE_RES_BUF_LEN)
            /\ dgram' = Some(Head(rxq).bytes)
            /\ dgram_re' = Head(rxq).re
            /\ rxq' = Tail(rxq)
            /\ pc' = "ax_tail"
            /\ UNCHANGED i
       ELSE \E outcome \in {"elapsed", "recv_error"} :
            /\ UNCHANGED <<buf, len, dgram, dgram_re, rxq>>
            /\ IF MoreAttempts(i)
               THEN i' = i + 1 /\ pc' = "ax_send"
               ELSE UNCHANGED i /\ pc' = "ax_tail"
    /\ UNCHANGED <<trackers, ti, ai, tracker, req, infohash, sends, sent,
                   parse_call, xres, ret>>
    /\ UNCHANGED <<answered, run_pc, run_last, sessvars>>

\* RunAfter with the loop left when the peer has closed
RunAfter_ReturnOnClose(event) ==
    IF event = "recv_error" THEN "tick_only"
    ELSE IF event = "peer closed" THEN "off"
    ELSE "select"

\* where run is after a branch of its select! has completed with event: a recv
\* error does not match the pattern Ok(n), which disables that branch for the
\* rest of this select!, so that only the tick is awaited; any handler that
\* runs ends the iteration and the loop enters select! again
RunAfter(event) ==
    IF event = "recv_error" THEN "tick_only" ELSE "select"

\* `match n { 0 => warn!("peer closed"), n => info!("datagram ..") }`
RunEvent(n) == IF n = 0 THEN "peer closed" ELSE "datagram"

\* the caller starts tracker.run(tx) on the session connect returned
RunStart ==
    /\ pc = "idle"
    /\ HasTracker
    /\ run_pc = "off"
    /\ run_last = "none"
    /\ run_pc' = "select"
    /\ UNCHANGED <<trackers, ti, ai, tracker, pc, i, req, buf, len, infohash,
                   dgram, sends, sent, recvs, parse_call, xres, ret>>
    /\ UNCHANGED <<rxq, dgram_re, answered, run_last, sessvars>>

\* Ok(n) = self.socket.recv(&mut buf): run reads the next datagram of the socket
RunRecv ==
    /\ run_pc = "select"
    /\ rxq # <<>>
    /\ LET n == Min(Len(Head(rxq).bytes), RunBufLen) IN
        /\ run_last' = RunEvent(n)
        /\ run_pc' = RunAfter(RunEvent(n))
    /\ rxq' = Tail(rxq)
    /\ UNCHANGED <<trackers, ti, ai, tracker, pc, i, req, buf, len, infohash,
                   dgram, sends, sent, recvs, parse_call, xres, ret>>
    /\ UNCHANGED <<dgram_re, answered, sessvars>>

\* self.socket.recv(&mut buf) of run returns Err(e)
RunRecvError ==
    /\ run_pc = "select"
    /\ run_last' = "recv_error"
    /\ run_pc' = RunAfter("recv_error")
    /\ UNCHANGED <<trackers, ti, ai, tracker, pc, i, req, buf, len, infohash,
                   dgram, sends, sent, recvs, parse_call, xres, ret>>
    /\ UNCHANGED <<rxq, dgram_re, answered, sessvars>>

\* _ = tick_timer.tick()
RunTick ==
    /\ run_pc \in {"select", "tick_only"}
    /\ run_last' = "tick"
    /\ run_pc' = RunAfter("tick")
    /\ UNCHANGED <<trackers, ti, ai, tracker, pc, i, req, buf, len, infohash,
                   dgram, sends, sent, recvs, parse_call, xres, ret>>
    /\ UNCHANGED <<rxq, dgram_re, answered, sessvars>>

\* Tracker::connect on one candidate with one address, of either family
InitRun ==
    /\ trackers \in { <<[ok |-> TRUE, addrs |-> <<Addr(1, 1, v6)>>]>> : v6 \in BOOLEAN }
    /\ tracker = None
    /\ pc = "connect_tracker"
    /\ ret = Running("connect")
    /\ InitLocals
    /\ InitNet
    /\ InitSess

NextRun ==
    \/ ConnectNextTracker
    \/ ConnectNextAddr
    \/ ConnectSend
    \/ ConnectRecvSock
    \/ ConnectReturn
    \/ AnnounceCall
    \/ AnnounceSend
    \/ AnnounceRecvSock
    \/ AnnounceReturn
    \/ NetDeliver
    \/ RunStart
    \/ RunRecv
    \/ RunRecvError
    \/ RunTick

SpecRun == InitRun /\ [][NextRun]_vars

-----------------------------------------------------------------------------
(* Several Tracker::connect calls in one process, one per tracker, each on a
   candidate with one address.  Every call makes a socket of its own; the
   local ports are the operating system's, shared by all sockets. *)

SessionIds == 1..MaxSessions

\* the state of the single call the other specifications follow
callvars == <<trackers, ti, ai, tracker, pc, i, req, buf, len, infohash,
              dgram, sends, sent, recvs, parse_call, xres, ret>>

\* the local port new_udp_socket binds for addr: 6881 for IPv4; for IPv6 port
\* 0, for which the operating system picks a port no socket holds
BindPort(addr, used) ==
    IF addr.v6
    THEN CHOOSE p \in 50000..(50000 + MaxSessions) : p \notin used
    ELSE LocalPortV4

\* UdpSocket::bind of a port: it fails (address in use) while another socket
\* holds that port
BindOutcome(port, used) == IF port \in used THEN "bind_failed" ELSE "ok"

\* connect() up to new_udp_socket(addr) for the call's one address
SessNewUdpSocket(s) ==
    /\ calls[s].pc = "socket"
    /\ LET addr == calls[s].addr
           port == BindPort(addr, os_ports)
           sock == NewUdpSocket(addr, BindOutcome(port, os_ports), port) IN
       IF sock.kind = "Panic"
       THEN /\ calls' = [calls EXCEPT ![s].pc = "returned",
                                      ![s].ret = Panic("connect", sock.msg)]
            /\ UNCHANGED os_ports
       ELSE /\ calls' = [calls EXCEPT ![s].pc = "exchange",
                                      ![s].socket = sock.socket]
            /\ os_ports' = os_ports \cup {port}
    /\ UNCHANGED <<callvars, netvars>>

\* one attempt of the call's connect_exchange: a valid response ends connect
\* with Ok(tracker); without one the next attempt follows, and after the last
\* the tracker and its socket are dropped and connect returns TrackerNoHosts
SessAttempt(s) ==
    /\ calls[s].pc = "exchange"
    /\ \/ /\ calls' = [calls EXCEPT ![s].pc = "returned",
                                     ![s].ret = Ok("connect", <<>>)]
          /\ UNCHANGED os_ports
       \/ /\ MoreAttempts(calls[s].i)
          /\ calls' = [calls EXCEPT ![s].i = @ + 1]
          /\ UNCHANGED os_ports
       \/ /\ ~MoreAttempts(calls[s].i)
          /\ calls' = [calls EXCEPT ![s].pc = "returned",
                                     ![s].socket = None,
                                     ![s].ret = Err("connect", "TrackerNoHosts")]
          /\ os_ports' = os_ports \ {calls[s].socket[1].local_port}
    /\ UNCHANGED <<callvars, netvars>>

\* the owner drops the Tracker connect returned: its socket is closed
SessDrop(s) ==
    /\ calls[s].pc = "returned"
    /\ calls[s].socket # None
    /\ calls' = [calls EXCEPT ![s].pc = "dropped", ![s].socket = None]
    /\ os_ports' = os_ports \ {calls[s].socket[1].local_port}
    /\ UNCHANGED <<callvars, netvars>>

\* every call is about to open the socket for its tracker's address
InitSessions ==
    /\ calls \in { c \in [SessionIds -> [pc : {"socket"},
                                          addr : {Addr(t, 1, v6) : t \in SessionIds,
                                                                   v6 \in BOOLEAN},
                                          i : {0}, socket : {None},
                                          ret : {Running("connect")}]] :
                      \A s \in SessionIds : c[s].addr.t = s }
    /\ os_ports = {}
    /\ trackers = <<>>
    /\ tracker = None
    /\ pc = "idle"
    /\ ret = Pending
    /\ InitLocals
    /\ InitNet

NextSessions ==
    \/ \E s \in SessionIds : SessNewUdpSocket(s)
    \/ \E s \in SessionIds : SessAttempt(s)
    \/ \E s \in SessionIds : SessDrop(s)

SpecSessions == InitSessions /\ [][NextSessions]_vars

-----------------------------------------------------------------------------
(* Properties *)

\* a big-endian u32 read off a datagram at byte k, by place value
U32At(d, k) == d[k] * 16777216 + d[k + 1] * 65536 + d[k + 2] * 256 + d[k + 3]

\* Tracker::connect has just returned Ok(tracker)
Connected == ret = Ok("connect", <<>>)

\* all resolved addresses of the candidate list, in list order
AllAddrs == Flatten([t \in 1..Len(trackers) |-> trackers[t].addrs])

\* C1: announce_exchange on a session whose connection_id is None returns
\* TrackerNoConnectionId and has sent no datagram and begun no receive, whatever
\* the infohash.
C1_NoConnectionIdNoIo ==
    (ret.call = "announce_exchange" /\ Self.ctx.connection_id = None) =>
        /\ ret = Err("announce_exchange", "TrackerNoConnectionId")
        /\ pc = "idle"
        /\ sent = <<>>
        /\ recvs = 0

C1_Witness ==
    /\ ret = Err("announce_exchange", "TrackerNoConnectionId")
    /\ Self.ctx.connection_id = None
    /\ infohash = [k \in 1..20 |-> 187]

\* what C2 says of one step of connect_exchange that ends the exchange
C2_ConnectStep ==
    /\ (pc = "cx_tail" /\ dgram = None) => xres'.status = "Err"
    /\ (pc = "cx_tail" /\ dgram # None /\ Len(dgram[1]) >= 8) =>
         LET match == /\ U32At(dgram[1], 1) = req.action
                      /\ U32At(dgram[1], 5) = req.transaction_id IN
         /\ xres'.status = "Ok" => match
         /\ ~match => /\ xres' = Err("connect_exchange", "TrackerResponse")
                      /\ tracker' = None
                      /\ ret'.status # "Ok"

\* what C2 says of one step of announce_exchange that ends the exchange
C2_AnnounceStep ==
    /\ (pc = "ax_tail" /\ dgram = None) => ret'.status = "Err"
    /\ (pc = "ax_tail" /\ dgram # None /\ Len(dgram[1]) >= 8) =>
         LET match == /\ U32At(dgram[1], 1) = req.action
                      /\ U32At(dgram[1], 5) = req.transaction_id IN
         /\ ret'.status = "Ok" => match
         /\ ~match => /\ ret'.status = "Err"
                      /\ ret'.peers = <<>>
                      /\ Len(dgram[1]) >= AnnounceHeaderLENGTH =>
                            ret'.err = "TrackerResponse"

C3_OrderAndSession ==
    /\ Len(sends) >= 1
    /\ Len(sends) <= Len(AllAddrs)
    /\ \A k \in 1..Len(sends) : sends[k].addr = AllAddrs[k]
    /\ Self.ctx.tracker_addr = LastSends.addr
    /\ Self.socket.remote = LastSends.addr
    /\ LastSends.received
    /\ ~LastSends.send_failed
    /\ LastSends.n \in 1..3
    /\ Len(sent) = LastSends.n
    /\ recvs = LastSends.n

\* C3 as claimed: connect tries the addresses in list order and returns a
\* session bound to the first address whose handshake succeeds; every earlier
\* address that never responded received exactly 3 sends, the successful one
\* sends only until its first response, no later address any send.
C3_Original ==
    Connected =>
        /\ C3_OrderAndSession
        /\ \A k \in 1..(Len(sends) - 1) : ~sends[k].received => sends[k].n = 3

\* C3 as amended: an earlier address that never responded received exactly 3
\* sends when none of its sends returned an error; a send error ends the
\* exchange with that address at once, after 1 to 3 send attempts.
C3_FirstSuccessfulAddress ==
    Connected =>
        /\ C3_OrderAndSession
        /\ \A k \in 1..(Len(sends) - 1) :
            /\ (~sends[k].received /\ ~sends[k].send_failed) => sends[k].n = 3
            /\ sends[k].n \in 1..3

C3_Witness ==
    /\ Connected
    /\ Len(sends) = 2
    /\ sends[1].n = 3 /\ ~sends[1].received /\ ~sends[1].send_failed
    /\ sends[2].n = 1
    /\ Self.ctx.tracker_addr = Addr(2, 1, FALSE)

\* C4: when connect ends without a session it has returned TrackerNoHosts and
\* has attempted every resolved address of every candidate.
C4_Claim ==
    pc = "returned" =>
        /\ ret = Err("connect", "TrackerNoHosts")
        /\ Len(sends) = Len(AllAddrs)

\* C5: a candidate whose resolution fails is skipped: connect returns an error
\* only when the whole list is exhausted, and the error is TrackerNoHosts.
C5_Claim ==
    (ret.call = "connect" /\ ret.status = "Err") =>
        /\ ret.err = "TrackerNoHosts"
        /\ ti = Len(trackers)

\* C6: a bind or connect error while opening the socket for one address skips
\* that address; it never aborts the connect call.
C6_Claim == ~(ret.call = "connect" /\ ret.status = "Panic")

\* C7: connection_id is None from the creation of the session until a connect
\* exchange succeeds, and a session returned by connect holds the connection_id
\* field of a response whose action and transaction id matched the request.
C7_Claim ==
    /\ pc \in {"cx_send", "cx_recv", "cx_tail"} => Self.ctx.connection_id = None
    /\ Connected =>
        /\ dgram # None
        /\ Len(dgram[1]) >= ResponseLENGTH
        /\ U32At(dgram[1], 1) = req.action
        /\ U32At(dgram[1], 5) = req.transaction_id
        /\ Self.ctx.connection_id # None
        /\ ToBE(Self.ctx.connection_id[1], 8) = SubSeq(dgram[1], 9, 16)

\* C8: no step of announce_exchange changes the session's connection_id,
\* peer_id or tracker_addr, whatever the call returns.
C8_AnnounceLeavesCtx ==
    [][ret'.call = "announce_exchange" => tracker'[1].ctx = tracker[1].ctx]_vars

C8_Witness ==
    /\ ret = Err("announce_exchange", "TrackerCompactPeerList")
    /\ Self.ctx.connection_id = Some(772)

\* C9: for a payload whose length is a multiple of the stride, the empty one
\* included, parse_compact_peer_list returns length/stride records in input
\* order, record k with the first stride-2 bytes of chunk k as address and the
\* big-endian value of its last two bytes as port.
C9_ParseWholeChunks ==
    parse_call # NoParse =>
        LET c == parse_call[1]
            stride == IF c.is_ipv6 THEN 18 ELSE 6
            n == Len(c.buf) \div stride IN
        Len(c.buf) % stride = 0 =>
            /\ c.result.ok
            /\ Len(c.result.peers) = n
            /\ \A k \in 1..n :
                LET base == (k - 1) * stride IN
                /\ Len(c.result.peers[k].ip) = stride - 2
                /\ \A j \in 1..(stride - 2) : c.result.peers[k].ip[j] = c.buf[base + j]
                /\ c.result.peers[k].port =
                        c.buf[base + stride - 1] * 256 + c.buf[base + stride]
            /\ ret = Ok("announce_exchange", c.result.peers)

C9_Witness ==
    /\ parse_call # NoParse
    /\ parse_call[1].buf = <<1, 2, 3, 4, 0, 80, 5, 6, 7, 8, 1, 187>>
    /\ ret.peers = <<[ip |-> <<1, 2, 3, 4>>, port |-> 80],
                     [ip |-> <<5, 6, 7, 8>>, port |-> 443]>>

\* C10: for a payload whose length is not a multiple of the stride,
\* parse_compact_peer_list fails with TrackerCompactPeerList and returns no
\* record, and announce_exchange fails with that error.
C10_ParseRemainderFails ==
    parse_call # NoParse =>
        LET c == parse_call[1]
            stride == IF c.is_ipv6 THEN 18 ELSE 6 IN
        Len(c.buf) % stride # 0 =>
            /\ ~c.result.ok
            /\ c.result.err = "TrackerCompactPeerList"
            /\ c.result.peers = <<>>
            /\ ret = Err("announce_exchange", "TrackerCompactPeerList")

C10_Witness ==
    /\ parse_call # NoParse
    /\ Len(parse_call[1].buf) = 11
    /\ ret = Err("announce_exchange", "TrackerCompactPeerList")

\* an exchange never sends or waits more than 3 times
C11_Budget ==
    /\ Len(sent) <= 3
    /\ recvs <= 3
    /\ sends # <<>> => LastSends.n <= 3

\* 3 waits without a datagram end connect_exchange with the response error
C11_ConnectStep ==
    (pc = "cx_tail" /\ recvs = 3 /\ dgram = None) =>
        /\ xres' = Err("connect_exchange", "TrackerResponse")
        /\ tracker' = None
        /\ ret'.status # "Ok"

\* 3 waits without a datagram end announce_exchange with the response error
C11_AnnounceStep ==
    (pc = "ax_tail" /\ recvs = 3 /\ dgram = None) =>
        /\ ret' = Err("announce_exchange", "TrackerResponse")
        /\ ret'.peers = <<>>
        /\ parse_call' = NoParse

\* C11: an exchange sends at most 3 datagrams in total, and when all 3 waits
\* end without a datagram it fails with the response error and yields nothing:
\* connect_exchange leaves no session with a connection id, announce_exchange
\* returns no peers.
C11_AtMostThreeSends == []C11_Budget /\ [][C11_ConnectStep /\ C11_AnnounceStep]_vars

C11_Witness ==
    /\ ret = Err("announce_exchange", "TrackerResponse")
    /\ dgram = None
    /\ Len(sent) = 3
    /\ recvs = 3

\* C13: all datagrams sent by one exchange are byte for byte the same request
\* and carry the one transaction id drawn when the exchange was called.
C13_SameRequestEveryAttempt ==
    \A k \in 1..Len(sent) :
        /\ sent[k] = sent[1]
        /\ U32At(sent[k], 13) = req.transaction_id

C13_Witness ==
    /\ pc = "cx_recv"
    /\ Len(sent) = 3
    /\ req.transaction_id = 258

\* C14: an exchange that has received a datagram is past its loop and sends
\* nothing more, whether or not the datagram is valid; an attempt is sent only
\* when every earlier attempt was sent and its wait ended without a datagram.
C14_NoSendAfterReceipt ==
    /\ dgram # None => /\ pc \in {"cx_tail", "ax_tail", "idle"}
                       /\ Len(sent) = recvs
    /\ pc \in {"cx_send", "ax_send"} =>
         dgram = None /\ Len(sent) = i /\ recvs = i
    /\ pc \in {"cx_recv", "ax_recv"} =>
         dgram = None /\ Len(sent) = i + 1 /\ recvs = i

C14_Witness ==
    /\ ret = Err("announce_exchange", "TrackerResponse")
    /\ dgram # None
    /\ Len(dgram[1]) >= AnnounceHeaderLENGTH
    /\ Len(sent) = 2
    /\ recvs = 2

\* an exchange has ended with the response error and no non-empty datagram
C18_EndsWithoutDatagram(call, result) ==
    /\ result = Err(call, "TrackerResponse")
    /\ dgram = None \/ dgram = Some(<<>>)

\* C18 as claimed: an exchange that ends with the response error without a
\* non-empty datagram has sent exactly 3 times, so that a zero-length datagram
\* on attempt 1 or 2 does not end it.
C18_Original ==
    [][/\ (pc = "cx_tail" /\ C18_EndsWithoutDatagram("connect_exchange", xres')) =>
            Len(sent) = 3
       /\ (pc = "ax_tail" /\ C18_EndsWithoutDatagram("announce_exchange", ret')) =>
            Len(sent) = 3]_vars

\* what holds of one step that ends an exchange without a non-empty datagram
C18_Step(tail, call, result) ==
    /\ (pc = tail /\ dgram = None) =>
         /\ result = Err(call, "TrackerResponse")
         /\ Len(sent) = 3
         /\ recvs = 3
    /\ (pc = tail /\ dgram = Some(<<>>)) =>
         /\ result = Err(call, "TrackerResponse")
         /\ Len(sent) = i + 1
         /\ recvs = i + 1

\* C18: an exchange that ends without having received any datagram ends with
\* the response error after exactly 3 sends; a zero-length datagram ends the
\* exchange with the response error on the attempt it arrives on, after 1, 2
\* or 3 sends.
C18_ZeroLengthEndsExchange ==
    [][/\ C18_Step("cx_tail", "connect_exchange", xres')
       /\ C18_Step("ax_tail", "announce_exchange", ret')]_vars

C18_Witness ==
    /\ ret = Err("announce_exchange", "TrackerResponse")
    /\ dgram = Some(<<>>)
    /\ Len(sent) = 1

\* C19: connect_exchange sets connection_id only from a datagram that holds
\* the full 16-byte response; a datagram of 1 to 15 bytes never results in a
\* connection id, whatever its action and transaction id.
C19_Claim ==
    [][(pc = "cx_tail" /\ dgram # None /\ Len(dgram[1]) \in 1..15) =>
          /\ xres'.status = "Err"
          /\ tracker' = None]_vars

\* the received datagram has the action and the transaction id of the request
C15_Matches ==
    /\ U32At(dgram[1], 1) = req.action
    /\ U32At(dgram[1], 5) = req.transaction_id

\* C15: when an exchange returns, a received response with the request's
\* action and transaction id is accepted whichever attempt it answers: also
\* the response to an earlier attempt that is read only after a later attempt
\* was sent sets the connection id, or yields the peers of its payload.
C15_LateResponseAccepted ==
    [][/\ (/\ pc = "cx_tail" /\ pc' # pc /\ dgram # None
           /\ Len(dgram[1]) >= ResponseLENGTH /\ C15_Matches) =>
            /\ xres'.status = "Ok"
            /\ tracker'[1].ctx.connection_id = Some(FromBE(SubSeq(dgram[1], 9, 16)))
       /\ (/\ pc = "ax_tail" /\ pc' # pc /\ dgram # None
           /\ Len(dgram[1]) >= AnnounceHeaderLENGTH /\ C15_Matches
           /\ (Len(dgram[1]) - AnnounceHeaderLENGTH) % Stride(Self.socket.is_ipv6) = 0) =>
            /\ ret'.status = "Ok"
            /\ Len(ret'.peers) =
                 (Len(dgram[1]) - AnnounceHeaderLENGTH) \div Stride(Self.socket.is_ipv6)]_vars

C15_Witness ==
    /\ ret.call = "announce_exchange"
    /\ ret.status = "Ok"
    /\ Len(sent) = 2
    /\ dgram_re = 1

\* one iteration of run's loop: a datagram read, a recv error or a tick
C16_RunStep == RunRecv \/ RunRecvError \/ RunTick

\* run sends nothing and leaves the session and any running exchange alone
C16_SessionUntouched ==
    /\ sent' = sent
    /\ tracker' = tracker
    /\ <<pc, i, req, buf, len, dgram, recvs, ret>>' = <<pc, i, req, buf, len, dgram, recvs, ret>>

\* C16 as claimed: after every iteration, a recv error included, run waits
\* again on both the tick and the next datagram.
C16_Original ==
    [][C16_RunStep => (run_pc' = "select" /\ C16_SessionUntouched)]_vars

\* C16: run, once started, never ends and never sends or changes the session;
\* after a zero-length read, a non-empty datagram or a tick it waits again on
\* both the tick and the next datagram, and after a recv error it waits for
\* the tick alone and after that tick again on both.
C16_RunNeverEnds ==
    /\ [][C16_RunStep =>
            /\ C16_SessionUntouched
            /\ run_pc' = (IF run_last' = "recv_error" THEN "tick_only" ELSE "select")]_vars
    /\ [][run_pc # "off" => run_pc' \in {"select", "tick_only"}]_vars
    /\ [][run_pc = "tick_only" =>
            (run_pc' = "tick_only" \/ (run_pc' = "select" /\ run_last' = "tick"))]_vars

C16_Witness ==
    /\ run_last = "peer closed"
    /\ run_pc = "select"
    /\ pc = "ax_recv"

\* C17: with run reading the same socket, an announce_exchange whose every
\* send was answered by a valid response during that attempt's wait does not
\* end with the response error for want of a datagram.
C17_Claim ==
    (/\ ret = Err("announce_exchange", "TrackerResponse")
     /\ pc = "idle"
     /\ dgram = None) => answered # {1, 2, 3}

\* C12: connect calls toward different trackers do not disturb one another:
\* no call ends in a panic or an error because another call's socket exists,
\* also when both trackers are IPv4 and both sockets bind local port 6881.
C12_Claim ==
    \A s \in SessionIds : calls[s].ret.status # "Panic"

=============================================================================
